---- MODULE Spec2Model ----
(***************************************************************************)
(* liv-msprep: replicate plating, resuspension, mixing and pooling on an   *)
(* Opentrons robot (src/liv_msprep/msprep.py).                             *)
(*                                                                         *)
(* The protocol hard-codes one geometry (a 24-well source block, a 96-well *)
(* destination plate of 8 rows by 12 columns, three replicates, last       *)
(* active source well B1).  The layout arithmetic is modelled over a       *)
(* family of geometries that contains this one, so that statements made    *)
(* "for all geometries" are checked on more than a single instance.        *)
(* Labware enumerations follow the Opentrons convention: wells() is        *)
(* column-major, so well w of a plate with r rows lies in column w \div r. *)
(***************************************************************************)
EXTENDS Integers, Sequences, FiniteSets, TLC

VARIABLES
    geom,            \* labware geometry and the two protocol constants
    pc,              \* position of run() in the protocol
    failedAt,        \* position at which an exception left run(), or "none"
    num_src,         \* run(): number of active source wells
    num_repl_wells,  \* run(): number of replicate wells
    pool_col_idx,    \* run(): first pooled-result column
    src_idx,         \* _plate(): loop index
    col_idx,         \* _resuspend(), _mix(), _pool(): loop index
    well_i,          \* _mix(): position in repl_wells (1-based)
    hasTip,          \* per pipette: is a tip attached
    tips_used,       \* tip pick-ups since the tip racks were last reset
    flow,            \* flow rates of the multi-channel pipette
    old_aspirate,    \* _pool(): captured aspirate rate
    old_dispense,    \* _pool(): captured dispense rate
    log              \* hardware and operator calls issued so far, in order

vars == <<geom, pc, failedAt, num_src, num_repl_wells, pool_col_idx, src_idx,
          col_idx, well_i, hasTip, tips_used, flow, old_aspirate,
          old_dispense, log>>

-----------------------------------------------------------------------------
(* Bounds of the family of small geometries.                               *)

MaxSrcWells == 4
MaxDestRows == 2
MaxDestCols == 6
MaxReps == 2

-----------------------------------------------------------------------------
(* Program constants.                                                      *)

NUM_REPS == 3
SRC_PLATE_LAST == 1
SAMPLE_PLATE_WELLS == 24
DEST_PLATE_ROWS == 8
DEST_PLATE_COLS == 12
TEMP_DECK_TEMPERATURE == 4
PLATE_VOLUME == 75
RESUSPEND_VOLUME == 40
MIX_VOLUME == 15
POOL_VOLUME == 35
POOL_ASPIRATE == 50
POOL_DISPENSE == 100

\* Python's None as an argument of _set_flow_rate.
None == -1

Geometry(w, l, r, c, n) ==
    [src_wells |-> w, src_last |-> l, dest_rows |-> r, dest_cols |-> c,
     num_reps |-> n]

\* The geometry the protocol is written for.
ProtocolGeometry ==
    Geometry(SAMPLE_PLATE_WELLS, SRC_PLATE_LAST, DEST_PLATE_ROWS,
             DEST_PLATE_COLS, NUM_REPS)

\* The protocol's labware with other settings of the two protocol constants
\* _SRC_PLATE_LAST and _NUM_REPS.
ProtocolVariants ==
    { Geometry(SAMPLE_PLATE_WELLS, l, DEST_PLATE_ROWS, DEST_PLATE_COLS, n) :
        l \in {0, 1, 7, 9, 23}, n \in {3, 4} }

\* Small geometries.  src_last = src_wells stands for a well name that the
\* source plate does not have.
SmallGeometries ==
    { Geometry(w, l, r, c, n) :
        w \in 1..MaxSrcWells, l \in 0..MaxSrcWells, r \in 1..MaxDestRows,
        c \in 1..MaxDestCols, n \in 0..MaxReps }

Geometries ==
    {g \in SmallGeometries : g.src_last <= g.src_wells}
        \cup ProtocolVariants \cup {ProtocolGeometry}

\* Flow rates (aspirate, dispense) the pipette may have when the protocol
\* starts: other than the overrides of _pool(), equal to them, and zero.
InitialFlowRates ==
    {<<150, 300>>, <<POOL_ASPIRATE, POOL_DISPENSE>>, <<0, 0>>, <<0, 300>>,
     <<150, POOL_DISPENSE>>}

-----------------------------------------------------------------------------
(* Python helpers.                                                         *)

Min(a, b) == IF a <= b THEN a ELSE b

\* range(start, stop, step) for step >= 1, as a sequence.
PyRange(start, stop, step) ==
    IF stop <= start THEN <<>>
    ELSE [i \in 1..((stop - start + step - 1) \div step) |->
              start + (i - 1) * step]

SeqToSet(s) == {s[i] : i \in 1..Len(s)}

\* One entry of the call log.
Entry(phase, op, idx, plate, src, dst, vol, ok) ==
    [phase |-> phase, op |-> op, idx |-> idx, plate |-> plate, src |-> src,
     dst |-> dst, vol |-> vol, ok |-> ok]

-----------------------------------------------------------------------------
(* Layout arithmetic of run().                                             *)

\* Mutant: the index of the last active well taken for the count.
NumSrcIndex(g) == g.src_last

\* src_plt.wells().index(src_plt[_SRC_PLATE_LAST]) + 1
NumSrc(g) == g.src_last + 1

\* len(src_plt.wells()) * _NUM_REPS
NumReplWells(g) == g.src_wells * g.num_reps

\* Mutant: the replicate wells divided by the columns of the plate.
PoolColIdxByCols(g, nrw) == nrw \div g.dest_cols

\* num_repl_wells // len(dest_plt.rows())
PoolColIdx(g, nrw) == nrw \div g.dest_rows

\* Mutant: the replicates of a source strided by the replicate count.
PlateReplIdxsByReps(g, s, nrw) == PyRange(s, nrw, g.num_reps)

\* _plate(): range(src_idx, num_repl_wells, len(src_plt.wells()))
PlateReplIdxs(g, s, nrw) == PyRange(s, nrw, g.src_wells)

\* Mutant: the loop over the source wells stops one well early.
PlateLoopShort(s, ns) == IF s + 1 < ns THEN "plate" ELSE "pause1"

\* _plate(): for src_idx, src_well in enumerate(src_plt.wells()[:num_src])
PlateLoop(s, ns) == IF s < ns THEN "plate" ELSE "pause1"

\* min(num_src // len(dest_plt.rows()) + 1, _NUM_REPS), the loop bound of
\* _resuspend(), _mix() and _pool()
\* Mutants: the loop bound without the extra group.
PoolColsNoMargin(g, ns) == Min(ns \div g.dest_rows, g.num_reps)
ResuspendColsNoMargin(g, ns) == Min(ns \div g.dest_rows, g.num_reps)
MixColsNoMargin(g, ns) == Min(ns \div g.dest_rows, g.num_reps)

ResuspendCols(g, ns) == Min(ns \div g.dest_rows + 1, g.num_reps)
MixCols(g, ns) == Min(ns \div g.dest_rows + 1, g.num_reps)
PoolCols(g, ns) == Min(ns \div g.dest_rows + 1, g.num_reps)

\* Mutants: the column group taken as the columns from col_idx on, and the
\* columns of the next offset.
PoolReplIdxsContiguous(g, c, pci) == PyRange(c, pci, 1)
MixReplIdxsShifted(g, c, pci) == PyRange(c + 1, pci, g.num_reps)

\* range(col_idx, pool_col_idx, _NUM_REPS) in each of the three phases
ResuspendReplIdxs(g, c, pci) == PyRange(c, pci, g.num_reps)
MixReplIdxs(g, c, pci) == PyRange(c, pci, g.num_reps)
PoolReplIdxs(g, c, pci) == PyRange(c, pci, g.num_reps)

\* Mutant: the offset taken for the result column.
PoolDestColOffset(c, pci) == c

\* pool_col_idx + col_idx
PoolDestCol(c, pci) == pci + c

\* Mutant: the index equal to the length of the list accepted.
DestColsOkInclusive(g, idxs) == \A i \in 1..Len(idxs) : idxs[i] <= g.dest_cols

\* dest_plt.wells()[idx] and dest_plt.columns()[idx] raise IndexError past
\* the end of the list.
DestWellsOk(g, idxs) ==
    \A i \in 1..Len(idxs) : idxs[i] < g.dest_rows * g.dest_cols
DestColsOk(g, idxs) == \A i \in 1..Len(idxs) : idxs[i] < g.dest_cols

-----------------------------------------------------------------------------
Init ==
    /\ geom \in Geometries
    /\ pc = "setup"
    /\ failedAt = "none"
    /\ num_src = 0
    /\ num_repl_wells = 0
    /\ pool_col_idx = 0
    /\ src_idx = 0
    /\ col_idx = 0
    /\ well_i = 1
    /\ hasTip = [single |-> FALSE, multi |-> FALSE]
    /\ tips_used = 0
    /\ \E r \in InitialFlowRates :
           flow = [aspirate |-> r[1], dispense |-> r[2], blow_out |-> 300]
    /\ old_aspirate = 0
    /\ old_dispense = 0
    /\ log = <<>>

\* Mutant: the exception is caught and the step is tried again.
RaiseRetry ==
    /\ pc' = pc
    /\ failedAt' = pc

\* An exception leaves run(): nothing catches it.
Raise ==
    /\ pc' = "failed"
    /\ failedAt' = pc

\* A hardware call that raises: the call is in the log, marked failed.
HwFail(e) ==
    /\ log' = Append(log, [e EXCEPT !.ok = FALSE])
    /\ Raise

-----------------------------------------------------------------------------
(* run(), lines 32-36.                                                     *)

\* _setup(): loads the labware and sets the temperature deck to 4 degrees.
Setup ==
    /\ pc = "setup"
    /\ LET e == Entry("Setup", "set_temperature", 0, "none", <<>>, <<>>,
                      TEMP_DECK_TEMPERATURE, TRUE)
       IN  \/ /\ log' = Append(log, e)
              /\ pc' = "layout"
              /\ UNCHANGED failedAt
           \/ HwFail(e)
    /\ UNCHANGED <<geom, num_src, num_repl_wells, pool_col_idx, src_idx,
                   col_idx, well_i, hasTip, tips_used, flow, old_aspirate,
                   old_dispense>>

\* num_src, num_repl_wells, pool_col_idx.  src_plt[_SRC_PLATE_LAST] raises
\* KeyError for a well the source plate does not have.
Layout ==
    /\ pc = "layout"
    /\ \/ /\ geom.src_last < geom.src_wells
          /\ num_src' = NumSrc(geom)
          /\ num_repl_wells' = NumReplWells(geom)
          /\ pool_col_idx' = PoolColIdx(geom, NumReplWells(geom))
          /\ pc' = PlateLoop(0, NumSrc(geom))
          /\ UNCHANGED failedAt
       \/ /\ geom.src_last >= geom.src_wells
          /\ Raise
          /\ UNCHANGED <<num_src, num_repl_wells, pool_col_idx>>
    /\ UNCHANGED <<geom, src_idx, col_idx, well_i, hasTip, tips_used, flow,
                   old_aspirate, old_dispense, log>>

-----------------------------------------------------------------------------
(* _plate(): one distribute per active source well, each with a tip of its *)
(* own that is returned to the rack (trash=False).                         *)

Plate ==
    /\ pc = "plate"
    /\ LET idxs == PlateReplIdxs(geom, src_idx, num_repl_wells)
           e == Entry("Plate", "distribute", src_idx, "source", <<src_idx>>,
                      idxs, PLATE_VOLUME, TRUE)
       IN  \/ /\ DestWellsOk(geom, idxs)
              /\ log' = Append(log, e)
              /\ tips_used' = tips_used + 1
              /\ src_idx' = src_idx + 1
              /\ pc' = PlateLoop(src_idx + 1, num_src)
              /\ UNCHANGED <<failedAt, hasTip>>
           \/ /\ DestWellsOk(geom, idxs)
              /\ HwFail(e)
              /\ \E t \in BOOLEAN : hasTip' = [hasTip EXCEPT !.single = t]
              /\ UNCHANGED <<tips_used, src_idx>>
           \/ /\ ~DestWellsOk(geom, idxs)
              /\ Raise
              /\ UNCHANGED <<log, hasTip, tips_used, src_idx>>
    /\ UNCHANGED <<geom, num_src, num_repl_wells, pool_col_idx, col_idx,
                   well_i, flow, old_aspirate, old_dispense>>

-----------------------------------------------------------------------------
(* Operator checkpoints: protocol.pause() returns when the operator        *)
(* resumes the run.                                                        *)

PauseEntry(phase, op) == Entry(phase, op, 0, "none", <<>>, <<>>, 0, TRUE)

PauseDrier ==
    /\ pc = "pause1"
    /\ log' = Append(log, PauseEntry("Pause1", "pause"))
    /\ pc' = "wait1"
    /\ UNCHANGED <<geom, failedAt, num_src, num_repl_wells, pool_col_idx,
                   src_idx, col_idx, well_i, hasTip, tips_used, flow,
                   old_aspirate, old_dispense>>

ResumeDrier ==
    /\ pc = "wait1"
    /\ log' = Append(log, PauseEntry("Pause1", "resume"))
    /\ pc' = "resuspend_pick"
    /\ UNCHANGED <<geom, failedAt, num_src, num_repl_wells, pool_col_idx,
                   src_idx, col_idx, well_i, hasTip, tips_used, flow,
                   old_aspirate, old_dispense>>

PauseCentrifuge ==
    /\ pc = "pause2"
    /\ log' = Append(log, PauseEntry("Pause2", "pause"))
    /\ pc' = "wait2"
    /\ UNCHANGED <<geom, failedAt, num_src, num_repl_wells, pool_col_idx,
                   src_idx, col_idx, well_i, hasTip, tips_used, flow,
                   old_aspirate, old_dispense>>

ResumeCentrifuge ==
    /\ pc = "wait2"
    /\ log' = Append(log, PauseEntry("Pause2", "resume"))
    /\ pc' = "pool_set"
    /\ UNCHANGED <<geom, failedAt, num_src, num_repl_wells, pool_col_idx,
                   src_idx, col_idx, well_i, hasTip, tips_used, flow,
                   old_aspirate, old_dispense>>

-----------------------------------------------------------------------------
(* _resuspend(): one tip for the whole phase; per column group a           *)
(* distribute from the reagent reservoir and a blow-out over the last      *)
(* column of the group.                                                    *)

TipEntry(phase, op, c) == Entry(phase, op, c, "none", <<>>, <<>>, 0, TRUE)

ResuspendLoop(g, c, ns) ==
    IF c < ResuspendCols(g, ns) THEN "resuspend_dist" ELSE "resuspend_drop"

ResuspendPickUp ==
    /\ pc = "resuspend_pick"
    /\ LET e == TipEntry("Resuspend", "pick_up_tip", 0)
       IN  \/ /\ log' = Append(log, e)
              /\ hasTip' = [hasTip EXCEPT !.multi = TRUE]
              /\ tips_used' = tips_used + 1
              /\ col_idx' = 0
              /\ pc' = ResuspendLoop(geom, 0, num_src)
              /\ UNCHANGED failedAt
           \/ /\ HwFail(e)
              /\ UNCHANGED <<hasTip, tips_used, col_idx>>
    /\ UNCHANGED <<geom, num_src, num_repl_wells, pool_col_idx, src_idx,
                   well_i, flow, old_aspirate, old_dispense>>

ResuspendDistribute ==
    /\ pc = "resuspend_dist"
    /\ LET idxs == ResuspendReplIdxs(geom, col_idx, pool_col_idx)
           e == Entry("Resuspend", "distribute", col_idx, "reagent", <<0>>,
                      idxs, RESUSPEND_VOLUME, TRUE)
       IN  \/ /\ DestColsOk(geom, idxs)
              /\ log' = Append(log, e)
              /\ pc' = "resuspend_blow"
              /\ UNCHANGED failedAt
           \/ /\ DestColsOk(geom, idxs)
              /\ HwFail(e)
           \/ /\ ~DestColsOk(geom, idxs)
              /\ Raise
              /\ UNCHANGED log
    /\ UNCHANGED <<geom, num_src, num_repl_wells, pool_col_idx, src_idx,
                   col_idx, well_i, hasTip, tips_used, flow, old_aspirate,
                   old_dispense>>

\* repl_wells[-1] raises IndexError when the column group is empty.
ResuspendBlowOut ==
    /\ pc = "resuspend_blow"
    /\ LET idxs == ResuspendReplIdxs(geom, col_idx, pool_col_idx)
           e == Entry("Resuspend", "blow_out", col_idx, "none", <<>>,
                      <<idxs[Len(idxs)]>>, 0, TRUE)
       IN  \/ /\ idxs # <<>>
              /\ log' = Append(log, e)
              /\ col_idx' = col_idx + 1
              /\ pc' = ResuspendLoop(geom, col_idx + 1, num_src)
              /\ UNCHANGED failedAt
           \/ /\ idxs # <<>>
              /\ HwFail(e)
              /\ UNCHANGED col_idx
           \/ /\ idxs = <<>>
              /\ Raise
              /\ UNCHANGED <<log, col_idx>>
    /\ UNCHANGED <<geom, num_src, num_repl_wells, pool_col_idx, src_idx,
                   well_i, hasTip, tips_used, flow, old_aspirate,
                   old_dispense>>

ResuspendDropTip ==
    /\ pc = "resuspend_drop"
    /\ LET e == TipEntry("Resuspend", "drop_tip", 0)
       IN  \/ /\ log' = Append(log, e)
              /\ hasTip' = [hasTip EXCEPT !.multi = FALSE]
              /\ pc' = "reset1"
              /\ UNCHANGED failedAt
           \/ /\ HwFail(e)
              /\ UNCHANGED hasTip
    /\ UNCHANGED <<geom, num_src, num_repl_wells, pool_col_idx, src_idx,
                   col_idx, well_i, tips_used, flow, old_aspirate,
                   old_dispense>>

-----------------------------------------------------------------------------
(* _mix(): per column group a tip is picked up, every column of the group  *)
(* is mixed, and the tip is returned to the rack.                          *)

MixLoop(g, c, ns) == IF c < MixCols(g, ns) THEN "mix_pick" ELSE "reset2"

\* run(), line 47, and the entry into _mix().
ResetTipracksResuspend ==
    /\ pc = "reset1"
    /\ tips_used' = 0
    /\ col_idx' = 0
    /\ pc' = MixLoop(geom, 0, num_src)
    /\ UNCHANGED <<geom, failedAt, num_src, num_repl_wells, pool_col_idx,
                   src_idx, well_i, hasTip, flow, old_aspirate, old_dispense,
                   log>>

MixPickUp ==
    /\ pc = "mix_pick"
    /\ LET idxs == MixReplIdxs(geom, col_idx, pool_col_idx)
           e == TipEntry("Mix", "pick_up_tip", col_idx)
       IN  \/ /\ DestColsOk(geom, idxs)
              /\ log' = Append(log, e)
              /\ hasTip' = [hasTip EXCEPT !.multi = TRUE]
              /\ tips_used' = tips_used + 1
              /\ well_i' = 1
              /\ pc' = IF idxs # <<>> THEN "mix_well" ELSE "mix_return"
              /\ UNCHANGED failedAt
           \/ /\ DestColsOk(geom, idxs)
              /\ HwFail(e)
              /\ UNCHANGED <<hasTip, tips_used, well_i>>
           \/ /\ ~DestColsOk(geom, idxs)
              /\ Raise
              /\ UNCHANGED <<log, hasTip, tips_used, well_i>>
    /\ UNCHANGED <<geom, num_src, num_repl_wells, pool_col_idx, src_idx,
                   col_idx, flow, old_aspirate, old_dispense>>

MixWell ==
    /\ pc = "mix_well"
    /\ LET idxs == MixReplIdxs(geom, col_idx, pool_col_idx)
           e == Entry("Mix", "mix", col_idx, "destination", <<>>,
                      <<idxs[well_i]>>, MIX_VOLUME, TRUE)
       IN  \/ /\ log' = Append(log, e)
              /\ well_i' = well_i + 1
              /\ pc' = IF well_i < Len(idxs) THEN "mix_well" ELSE "mix_return"
              /\ UNCHANGED failedAt
           \/ /\ HwFail(e)
              /\ UNCHANGED well_i
    /\ UNCHANGED <<geom, num_src, num_repl_wells, pool_col_idx, src_idx,
                   col_idx, hasTip, tips_used, flow, old_aspirate,
                   old_dispense>>

\* Mutant: the tip is kept for the next column group.
MixKeepTip ==
    /\ pc = "mix_return"
    /\ col_idx' = col_idx + 1
    /\ pc' = IF col_idx + 1 < MixCols(geom, num_src) THEN "mix_pick" ELSE "reset2"
    /\ UNCHANGED <<geom, failedAt, num_src, num_repl_wells, pool_col_idx,
                   src_idx, well_i, hasTip, tips_used, flow, old_aspirate,
                   old_dispense, log>>

MixReturnTip ==
    /\ pc = "mix_return"
    /\ LET e == TipEntry("Mix", "return_tip", col_idx)
       IN  \/ /\ log' = Append(log, e)
              /\ hasTip' = [hasTip EXCEPT !.multi = FALSE]
              /\ col_idx' = col_idx + 1
              /\ pc' = MixLoop(geom, col_idx + 1, num_src)
              /\ UNCHANGED failedAt
           \/ /\ HwFail(e)
              /\ UNCHANGED <<hasTip, col_idx>>
    /\ UNCHANGED <<geom, num_src, num_repl_wells, pool_col_idx, src_idx,
                   well_i, tips_used, flow, old_aspirate, old_dispense>>

\* run(), line 52.
ResetTipracksMix ==
    /\ pc = "reset2"
    /\ tips_used' = 0
    /\ pc' = "pause2"
    /\ UNCHANGED <<geom, failedAt, num_src, num_repl_wells, pool_col_idx,
                   src_idx, col_idx, well_i, hasTip, flow, old_aspirate,
                   old_dispense, log>>

-----------------------------------------------------------------------------
(* _set_flow_rate(): a rate is written when the argument is truthy and     *)
(* differs from the current rate; the old rates are returned.              *)

Truthy(x) == x # None /\ x # 0

FlowWritten(new, old) == Truthy(new) /\ new # old

SetFlowRate(f, aspirate, dispense, blow_out) ==
    [aspirate |-> IF FlowWritten(aspirate, f.aspirate)
                  THEN aspirate ELSE f.aspirate,
     dispense |-> IF FlowWritten(dispense, f.dispense)
                  THEN dispense ELSE f.dispense,
     blow_out |-> IF FlowWritten(blow_out, f.blow_out)
                  THEN blow_out ELSE f.blow_out]

FlowEntry(op, rate) == Entry("Pool", op, rate, "none", <<>>, <<>>, 0, TRUE)

\* The writes _set_flow_rate() issues, in order.
FlowWrites(f, aspirate, dispense, blow_out) ==
    (IF FlowWritten(aspirate, f.aspirate)
     THEN <<FlowEntry("set_aspirate", aspirate)>> ELSE <<>>)
    \o (IF FlowWritten(dispense, f.dispense)
        THEN <<FlowEntry("set_dispense", dispense)>> ELSE <<>>)
    \o (IF FlowWritten(blow_out, f.blow_out)
        THEN <<FlowEntry("set_blow_out", blow_out)>> ELSE <<>>)

-----------------------------------------------------------------------------
(* _pool(): flow rates overridden for the phase; per column group a        *)
(* consolidate into the column pool_col_idx + col_idx, with a tip of its   *)
(* own, and a blow-out over that column.                                   *)

\* Mutant: a third wait, for which run() has no resume, after the last group.
PoolLoopWait(g, c, ns) ==
    IF c < PoolCols(g, ns) THEN "pool_cons" ELSE "wait3"

PoolLoop(g, c, ns) ==
    IF c < PoolCols(g, ns) THEN "pool_cons" ELSE "pool_restore"

PoolSetFlowRate ==
    /\ pc = "pool_set"
    /\ old_aspirate' = flow.aspirate
    /\ old_dispense' = flow.dispense
    /\ flow' = SetFlowRate(flow, POOL_ASPIRATE, POOL_DISPENSE, None)
    /\ log' = log \o FlowWrites(flow, POOL_ASPIRATE, POOL_DISPENSE, None)
    /\ col_idx' = 0
    /\ pc' = PoolLoop(geom, 0, num_src)
    /\ UNCHANGED <<geom, failedAt, num_src, num_repl_wells, pool_col_idx,
                   src_idx, well_i, hasTip, tips_used>>

PoolConsolidate ==
    /\ pc = "pool_cons"
    /\ LET idxs == PoolReplIdxs(geom, col_idx, pool_col_idx)
           dest == PoolDestCol(col_idx, pool_col_idx)
           inRange == DestColsOk(geom, idxs) /\ dest < geom.dest_cols
           e == Entry("Pool", "consolidate", col_idx, "destination", idxs,
                      <<dest>>, POOL_VOLUME, TRUE)
       IN  \/ /\ inRange
              /\ log' = Append(log, e)
              /\ tips_used' = tips_used + 1
              /\ pc' = "pool_blow"
              /\ UNCHANGED <<failedAt, hasTip>>
           \/ /\ inRange
              /\ HwFail(e)
              /\ \E t \in BOOLEAN : hasTip' = [hasTip EXCEPT !.multi = t]
              /\ UNCHANGED tips_used
           \/ /\ ~inRange
              /\ Raise
              /\ UNCHANGED <<log, hasTip, tips_used>>
    /\ UNCHANGED <<geom, num_src, num_repl_wells, pool_col_idx, src_idx,
                   col_idx, well_i, flow, old_aspirate, old_dispense>>

PoolBlowOut ==
    /\ pc = "pool_blow"
    /\ LET e == Entry("Pool", "blow_out", col_idx, "none", <<>>,
                      <<PoolDestCol(col_idx, pool_col_idx)>>, 0, TRUE)
       IN  \/ /\ log' = Append(log, e)
              /\ col_idx' = col_idx + 1
              /\ pc' = PoolLoop(geom, col_idx + 1, num_src)
              /\ UNCHANGED failedAt
           \/ /\ HwFail(e)
              /\ UNCHANGED col_idx
    /\ UNCHANGED <<geom, num_src, num_repl_wells, pool_col_idx, src_idx,
                   well_i, hasTip, tips_used, flow, old_aspirate,
                   old_dispense>>

PoolRestoreFlowRate ==
    /\ pc = "pool_restore"
    /\ flow' = SetFlowRate(flow, old_aspirate, old_dispense, None)
    /\ log' = log \o FlowWrites(flow, old_aspirate, old_dispense, None)
    /\ pc' = "done"
    /\ UNCHANGED <<geom, failedAt, num_src, num_repl_wells, pool_col_idx,
                   src_idx, col_idx, well_i, hasTip, tips_used, old_aspirate,
                   old_dispense>>

-----------------------------------------------------------------------------
Next ==
    \/ Setup
    \/ Layout
    \/ Plate
    \/ PauseDrier
    \/ ResumeDrier
    \/ ResuspendPickUp
    \/ ResuspendDistribute
    \/ ResuspendBlowOut
    \/ ResuspendDropTip
    \/ ResetTipracksResuspend
    \/ MixPickUp
    \/ MixWell
    \/ MixReturnTip
    \/ ResetTipracksMix
    \/ PauseCentrifuge
    \/ ResumeCentrifuge
    \/ PoolSetFlowRate
    \/ PoolConsolidate
    \/ PoolBlowOut
    \/ PoolRestoreFlowRate

Spec == Init /\ [][Next]_vars

-----------------------------------------------------------------------------
(* Vocabulary of the properties.                                           *)

PcOrder ==
    <<"setup", "layout", "plate", "pause1", "wait1", "resuspend_pick",
      "resuspend_dist", "resuspend_blow", "resuspend_drop", "reset1",
      "mix_pick", "mix_well", "mix_return", "reset2", "pause2", "wait2",
      "pool_set", "pool_cons", "pool_blow", "pool_restore", "done">>

PcRank(p) == CHOOSE i \in 1..Len(PcOrder) : PcOrder[i] = p

\* Where run() is, or was when an exception left it.
Where == IF pc = "failed" THEN failedAt ELSE pc

LayoutComplete == PcRank(Where) > PcRank("layout")
PlateComplete == PcRank(Where) > PcRank("plate")
ResuspendComplete == PcRank(Where) > PcRank("resuspend_drop")
MixComplete == PcRank(Where) > PcRank("mix_return")
PoolComplete == pc = "done"

PhaseOrder == <<"Setup", "Plate", "Pause1", "Resuspend", "Mix", "Pause2", "Pool">>

PhaseRank(ph) == CHOOSE i \in 1..Len(PhaseOrder) : PhaseOrder[i] = ph

\* Positions of the log that hold a call op of a phase.
Calls(phase, op) ==
    {i \in DOMAIN log : log[i].phase = phase /\ log[i].op = op}

\* The offsets (idx) of these calls, in the order of the log.
Offsets(phase, op) ==
    LET sel == SelectSeq(log, LAMBDA e : e.phase = phase /\ e.op = op)
    IN  [i \in DOMAIN sel |-> sel[i].idx]

UpTo(n) == [i \in 1..n |-> i - 1]

\* The geometry in the words of the specification.
TotalSourceCount == geom.src_wells
ActiveSourceCount == geom.src_last + 1
DestinationRows == geom.dest_rows
ReplicationFactor == geom.num_reps

\* min(activeSourceCount // destinationRows + 1, R)
SelectedOffsets ==
    LET a == ActiveSourceCount \div DestinationRows + 1
    IN  IF a <= ReplicationFactor THEN a ELSE ReplicationFactor

\* A call of a phase after ph has been issued.
IssuedAfter(ph) ==
    \E j \in DOMAIN log : PhaseRank(log[j].phase) > PhaseRank(ph)

IsLiquidOp(e) == e.op \in {"distribute", "mix", "consolidate"}

-----------------------------------------------------------------------------
(* C1: phases run in the order Distribute, checkpoint, Resuspend, Mix,     *)
(* checkpoint, Pool.  No call of a later phase is issued before every      *)
(* operation of the earlier phases has completed and the checkpoint in     *)
(* between has been acknowledged, and within a phase the operations are    *)
(* issued in ascending source index / replica offset.                      *)
C1_PhaseOrder ==
    /\ \A i, j \in DOMAIN log :
          i < j =>
            /\ PhaseRank(log[i].phase) <= PhaseRank(log[j].phase)
            /\ (PhaseRank(log[i].phase) < PhaseRank(log[j].phase)) => log[i].ok
            /\ ( /\ log[i].phase = log[j].phase
                 /\ IsLiquidOp(log[i])
                 /\ IsLiquidOp(log[j]) ) =>
                   \/ log[i].idx < log[j].idx
                   \/ /\ log[i].op = "mix"
                      /\ log[i].idx = log[j].idx
                      /\ log[i].dst[1] < log[j].dst[1]
    /\ IssuedAfter("Plate") =>
          Offsets("Plate", "distribute") = UpTo(ActiveSourceCount)
    /\ \A j \in DOMAIN log :
          PhaseRank(log[j].phase) > PhaseRank("Pause1") =>
              \E i \in 1..(j - 1) :
                  log[i].phase = "Pause1" /\ log[i].op = "resume"
    /\ IssuedAfter("Resuspend") =>
          /\ Offsets("Resuspend", "distribute") = UpTo(SelectedOffsets)
          /\ Offsets("Resuspend", "blow_out") = UpTo(SelectedOffsets)
          /\ Calls("Resuspend", "drop_tip") # {}
    /\ IssuedAfter("Mix") =>
          Offsets("Mix", "return_tip") = UpTo(SelectedOffsets)
    /\ \A j \in DOMAIN log :
          PhaseRank(log[j].phase) > PhaseRank("Pause2") =>
              \E i \in 1..(j - 1) :
                  log[i].phase = "Pause2" /\ log[i].op = "resume"

\* A run of several sources and several column groups has reached the end.
C1_Witness ==
    /\ pc = "done"
    /\ Cardinality(Calls("Plate", "distribute")) >= 2
    /\ Cardinality(Calls("Mix", "mix")) >= 3
    /\ Cardinality(Calls("Pool", "consolidate")) >= 2

-----------------------------------------------------------------------------
(* C2: Distribute issues exactly activeSourceCount operations, one per     *)
(* source index s below activeSourceCount = last active index + 1, and the *)
(* operation for s dispenses into exactly the R wells s + k * total source *)
(* count, k = 0..R-1.                                                      *)
C2_DistributePlan ==
    /\ \A i \in Calls("Plate", "distribute") :
          /\ log[i].src = <<log[i].idx>>
          /\ log[i].dst = [k \in 1..ReplicationFactor |->
                               log[i].idx + (k - 1) * TotalSourceCount]
    /\ Offsets("Plate", "distribute") \in
          {UpTo(n) : n \in 0..ActiveSourceCount}
    /\ PlateComplete => Offsets("Plate", "distribute") = UpTo(ActiveSourceCount)

\* 24 source positions, R = 4, last active index 1: two operations of four
\* destinations each.
C2_Witness ==
    /\ geom = Geometry(24, 1, 8, 12, 4)
    /\ pc = "pause1"
    /\ Len(Offsets("Plate", "distribute")) = 2
    /\ \A i \in Calls("Plate", "distribute") : Len(log[i].dst) = 4

-----------------------------------------------------------------------------
(* Replicate groups as Distribute dispensed them.                          *)

ReplicateGroup(i) == SeqToSet(log[i].dst)

Dispensed == UNION {ReplicateGroup(i) : i \in Calls("Plate", "distribute")}

\* The wells of the destination columns below the pool boundary.
PreBoundaryWells == 0..(pool_col_idx * DestinationRows - 1)

\* The wells of the replicate blocks that belong to an active source index.
ActiveRange ==
    {w \in 0..(TotalSourceCount * ReplicationFactor - 1) :
        w % TotalSourceCount < ActiveSourceCount}

GroupsDisjoint ==
    \A i, j \in Calls("Plate", "distribute") :
        i # j => ReplicateGroup(i) \cap ReplicateGroup(j) = {}

GroupsDistinct ==
    \A i \in Calls("Plate", "distribute") :
        Cardinality(ReplicateGroup(i)) = ReplicationFactor

(* C3 as stated: for all geometries the replicate groups of the active     *)
(* source indices are pairwise disjoint, each of R distinct wells, and     *)
(* their union partitions the pre-boundary destination region, without     *)
(* gaps within the active range.                                           *)
C3_Original ==
    /\ GroupsDisjoint
    /\ GroupsDistinct
    /\ PlateComplete =>
          Dispensed = {w \in PreBoundaryWells :
                          w % TotalSourceCount < ActiveSourceCount}

(* C3, amended: the replicate groups of the active source indices are      *)
(* pairwise disjoint, each of R distinct wells, and their union is exactly *)
(* the wells w below total source count * R with w mod total source count  *)
(* below the active source count.  The union lies in the pre-boundary      *)
(* region when the number of destination rows divides total source count   *)
(* * R.                                                                    *)
C3_ReplicateGroups ==
    /\ GroupsDisjoint
    /\ GroupsDistinct
    /\ Dispensed \subseteq ActiveRange
    /\ PlateComplete => Dispensed = ActiveRange
    /\ (LayoutComplete
        /\ (TotalSourceCount * ReplicationFactor) % DestinationRows = 0) =>
          Dispensed \subseteq PreBoundaryWells

\* Several sources have been distributed, each into several wells, in a
\* geometry whose replicate wells fill whole columns.
C3_Witness ==
    /\ PlateComplete
    /\ Cardinality(Calls("Plate", "distribute")) >= 2
    /\ ReplicationFactor >= 2
    /\ (TotalSourceCount * ReplicationFactor) % DestinationRows = 0
    /\ ActiveSourceCount < TotalSourceCount
    /\ Dispensed # {}

-----------------------------------------------------------------------------
(* C4: Resuspend, Mix and Pool operate on the same replica offsets         *)
(* 0..n-1, n = min(activeSourceCount // destinationRows + 1, R).  Mix and  *)
(* Pool select no offset that Resuspend did not select and omit none that  *)
(* it selected.                                                            *)
C4_SameOffsets ==
    /\ ResuspendComplete =>
          Offsets("Resuspend", "distribute") = UpTo(SelectedOffsets)
    /\ MixComplete =>
          /\ Offsets("Mix", "pick_up_tip") = UpTo(SelectedOffsets)
          /\ {log[i].idx : i \in Calls("Mix", "mix")}
                = SeqToSet(UpTo(SelectedOffsets))
    /\ PoolComplete =>
          Offsets("Pool", "consolidate") = UpTo(SelectedOffsets)
    /\ \A i \in Calls("Mix", "mix") \cup Calls("Mix", "pick_up_tip")
                    \cup Calls("Pool", "consolidate") :
          \E j \in Calls("Resuspend", "distribute") :
              j < i /\ log[j].idx = log[i].idx

\* activeSourceCount = 10, 8 rows, R = 3: two offsets, in all three phases.
C4_Witness ==
    /\ geom = Geometry(24, 9, 8, 12, 3)
    /\ pc = "done"
    /\ Offsets("Resuspend", "distribute") = <<0, 1>>
    /\ Offsets("Mix", "pick_up_tip") = <<0, 1>>
    /\ Offsets("Pool", "consolidate") = <<0, 1>>

-----------------------------------------------------------------------------
(* C5 as stated: the pool boundary is (number of active source positions   *)
(* * R) integer-divided by the number of wells of a destination column (8  *)
(* for the plate of 12 columns by 8 rows).                                 *)
C5_Original ==
    LayoutComplete =>
        pool_col_idx = (ActiveSourceCount * ReplicationFactor) \div DestinationRows

(* C5, amended: the pool boundary is (total number of source positions *   *)
(* R) integer-divided by the number of destination rows, the remainder     *)
(* discarded; it does not depend on the number of active source            *)
(* positions.  Pool consolidates offset c into column boundary + c.        *)
C5_PoolBoundary ==
    /\ LayoutComplete =>
          pool_col_idx = (TotalSourceCount * ReplicationFactor) \div DestinationRows
    /\ \A i \in Calls("Pool", "consolidate") :
          log[i].dst = <<(TotalSourceCount * ReplicationFactor) \div DestinationRows
                            + log[i].idx>>

\* The protocol's geometry: 24 * 3 = 72 replicate wells, 72 // 8 = 9.
C5_Witness ==
    /\ geom = ProtocolGeometry
    /\ pool_col_idx = 9
    /\ \E i \in Calls("Pool", "consolidate") : log[i].dst = <<9>>

-----------------------------------------------------------------------------
\* The destination columns of replica offset c: c, c + R, c + 2R, ... below
\* the pool boundary.
ColumnGroup(c) ==
    {k \in 0..(pool_col_idx - 1) :
        k >= c /\ (k - c) % ReplicationFactor = 0}

IsAscending(q) == \A i \in 1..(Len(q) - 1) : q[i] < q[i + 1]

(* C6: for each selected replica offset c the column group is the ordered  *)
(* sequence of destination columns c, c+R, c+2R, ... below the pool        *)
(* boundary, and Pool issues exactly one consolidation per selected        *)
(* offset, from that whole group into the single column boundary + c.      *)
C6_ColumnGroups ==
    /\ \A i \in Calls("Pool", "consolidate") :
          /\ SeqToSet(log[i].src) = ColumnGroup(log[i].idx)
          /\ IsAscending(log[i].src)
          /\ log[i].plate = "destination"
          /\ log[i].dst = <<pool_col_idx + log[i].idx>>
    /\ \A i, j \in Calls("Pool", "consolidate") :
          log[i].idx = log[j].idx => i = j
    /\ PoolComplete =>
          {log[i].idx : i \in Calls("Pool", "consolidate")}
              = 0..(SelectedOffsets - 1)

\* Pool has consolidated two column groups of several columns each.
C6_Witness ==
    /\ pc = "done"
    /\ Cardinality(Calls("Pool", "consolidate")) >= 2
    /\ \A i \in Calls("Pool", "consolidate") : Len(log[i].src) >= 2

-----------------------------------------------------------------------------
(* C7: a Mix operation on a column group never precedes the Resuspend      *)
(* operation on that group; every column that Mix agitates has already     *)
(* received its Resuspend dispense.                                        *)
C7_MixAfterResuspend ==
    \A j \in Calls("Mix", "mix") :
        \E i \in Calls("Resuspend", "distribute") :
            /\ i < j
            /\ log[i].ok
            /\ log[i].idx = log[j].idx
            /\ log[j].dst[1] \in SeqToSet(log[i].dst)

\* Mix has agitated the columns of two column groups.
C7_Witness ==
    /\ MixComplete
    /\ {log[j].idx : j \in Calls("Mix", "mix")} = {0, 1}
    /\ Cardinality(Calls("Mix", "mix")) >= 4

-----------------------------------------------------------------------------
(* C8: whatever the aspirate and dispense flow rates were before the Pool  *)
(* phase (the override values 50 and 100 and the value 0 included), they   *)
(* are the same after the phase, whether or not an override was written.   *)
(* Stated for the protocol's own geometry.                                 *)
C8_FlowRatesRestored ==
    (geom = ProtocolGeometry /\ PoolComplete) =>
        /\ flow.aspirate = old_aspirate
        /\ flow.dispense = old_dispense

-----------------------------------------------------------------------------
(* Tip handling of the multi-channel pipette.                              *)

TipCalls(phase) ==
    SelectSeq(log, LAMBDA e : e.phase = phase
                              /\ e.op \in {"pick_up_tip", "drop_tip", "return_tip"}
                              /\ e.ok)

\* The calls of a phase that need the tip: the last tip call before each of
\* them is a pick-up.
UsesHeldTip(phase, c) ==
    \A j \in DOMAIN log :
        ( /\ log[j].phase = phase
          /\ log[j].op \in {"distribute", "blow_out", "mix"}
          /\ c \in {log[j].idx, -1} ) =>
            \E i \in 1..(j - 1) :
                /\ log[i].phase = phase
                /\ log[i].op = "pick_up_tip"
                /\ log[i].ok
                /\ c \in {log[i].idx, -1}
                /\ \A k \in (i + 1)..(j - 1) :
                       log[k].op \notin {"pick_up_tip", "drop_tip", "return_tip"}

(* C9 as stated: Resuspend and Mix each acquire exactly one tip at the     *)
(* start of the phase, reuse it for every operation of the phase, and      *)
(* release it once at the end of the phase.  Stated for the geometries     *)
(* with a replication factor of at least 1.                                *)
C9_Original ==
    ReplicationFactor >= 1 =>
    /\ ResuspendComplete =>
          /\ [i \in DOMAIN TipCalls("Resuspend") |-> TipCalls("Resuspend")[i].op]
                = <<"pick_up_tip", "drop_tip">>
          /\ UsesHeldTip("Resuspend", -1)
    /\ MixComplete =>
          /\ [i \in DOMAIN TipCalls("Mix") |-> TipCalls("Mix")[i].op]
                = <<"pick_up_tip", "return_tip">>
          /\ UsesHeldTip("Mix", -1)

(* C9, amended: Resuspend acquires exactly one tip at the start of the     *)
(* phase, reuses it for every operation of the phase and drops it once at  *)
(* the end.  Mix acquires one tip per selected column group, reuses it for *)
(* every column of that group and returns it at the end of the group: a    *)
(* Mix phase of n column groups picks up and returns n tips.               *)
C9_TipPolicy ==
    /\ UsesHeldTip("Resuspend", -1)
    /\ Len(TipCalls("Resuspend")) <= 2
    /\ ResuspendComplete =>
          [i \in DOMAIN TipCalls("Resuspend") |-> TipCalls("Resuspend")[i].op]
              = <<"pick_up_tip", "drop_tip">>
    /\ \A c \in 0..(SelectedOffsets - 1) : UsesHeldTip("Mix", c)
    /\ \A i \in DOMAIN TipCalls("Mix") :
          /\ TipCalls("Mix")[i].op
                = (IF i % 2 = 1 THEN "pick_up_tip" ELSE "return_tip")
          /\ TipCalls("Mix")[i].idx = (i - 1) \div 2
    /\ MixComplete => Len(TipCalls("Mix")) = 2 * SelectedOffsets

\* Resuspend and Mix have both completed over two column groups.
C9_Witness ==
    /\ MixComplete
    /\ SelectedOffsets = 2
    /\ Len(TipCalls("Resuspend")) = 2
    /\ Len(TipCalls("Mix")) = 4
    /\ Cardinality(Calls("Resuspend", "distribute")) = 2

-----------------------------------------------------------------------------
ResuspendExits ==
    \/ pc = "reset1"
    \/ pc = "failed" /\ failedAt \in {"resuspend_pick", "resuspend_dist",
                                      "resuspend_blow", "resuspend_drop"}

MixExits ==
    \/ pc = "reset2"
    \/ pc = "failed" /\ failedAt \in {"mix_pick", "mix_well", "mix_return"}

(* C10: on every exit path of Resuspend and Mix, a failing operation       *)
(* inside the phase included, the tip the phase acquired has been released *)
(* when control leaves the phase: no state has the phase exited and its    *)
(* tip still on the pipette.  Stated for the protocol's own geometry.      *)
C10_TipReleasedOnExit ==
    (geom = ProtocolGeometry /\ (ResuspendExits \/ MixExits)) => ~hasTip.multi

-----------------------------------------------------------------------------
(* The four phase functions take num_src as a parameter.  run() passes the *)
(* index of the last active well plus one, which is never 0; PhasesSpec    *)
(* enters the phases as run() does after line 36, with num_src either that *)
(* count or 0.                                                             *)

PhasesInit ==
    /\ geom \in {g \in Geometries : g.src_last < g.src_wells}
    /\ num_src \in {0, NumSrc(geom)}
    /\ num_repl_wells = NumReplWells(geom)
    /\ pool_col_idx = PoolColIdx(geom, NumReplWells(geom))
    /\ pc = PlateLoop(0, num_src)
    /\ failedAt = "none"
    /\ src_idx = 0
    /\ col_idx = 0
    /\ well_i = 1
    /\ hasTip = [single |-> FALSE, multi |-> FALSE]
    /\ tips_used = 0
    /\ flow = [aspirate |-> 150, dispense |-> 300, blow_out |-> 300]
    /\ old_aspirate = 0
    /\ old_dispense = 0
    /\ log = <<>>

PhasesNext ==
    \/ Plate
    \/ PauseDrier
    \/ ResumeDrier
    \/ ResuspendPickUp
    \/ ResuspendDistribute
    \/ ResuspendBlowOut
    \/ ResuspendDropTip
    \/ ResetTipracksResuspend
    \/ MixPickUp
    \/ MixWell
    \/ MixReturnTip
    \/ ResetTipracksMix
    \/ PauseCentrifuge
    \/ ResumeCentrifuge
    \/ PoolSetFlowRate
    \/ PoolConsolidate
    \/ PoolBlowOut
    \/ PoolRestoreFlowRate

PhasesSpec == PhasesInit /\ [][PhasesNext]_vars

IsHardwareCall(e) ==
    e.op \in {"pick_up_tip", "drop_tip", "return_tip", "distribute", "mix",
              "consolidate", "blow_out", "set_aspirate", "set_dispense",
              "set_blow_out"}

-----------------------------------------------------------------------------
InvalidGeometry ==
    \/ geom.num_reps <= 0
    \/ geom.src_last >= geom.src_wells

(* C12: an invalid geometry (replication factor <= 0, or a last active     *)
(* position outside the source array) makes the run fail before any        *)
(* hardware action is issued: no hardware action is ever in the log of a   *)
(* run with an invalid geometry, and such a run does not complete.         *)
C12_FailFast ==
    InvalidGeometry =>
        /\ \A i \in DOMAIN log : ~IsHardwareCall(log[i])
        /\ pc # "done"

-----------------------------------------------------------------------------
(* C13: when a dispense, mix or consolidate action fails the run halts at  *)
(* that operation: the failed call is the last call of the run, it is not  *)
(* issued again, and no later operation, checkpoint or phase follows.      *)
C13_HaltsAtFailure ==
    /\ \A i \in DOMAIN log :
          ~log[i].ok => (i = Len(log) /\ pc = "failed")
    /\ pc = "failed" => ~ENABLED Next

\* A consolidate of Pool has failed, after the earlier phases completed.
C13_Witness ==
    /\ pc = "failed"
    /\ log # <<>>
    /\ log[Len(log)].op = "consolidate"
    /\ ~log[Len(log)].ok
    /\ Cardinality(Calls("Mix", "mix")) >= 1

-----------------------------------------------------------------------------
\* The replicate wells of one source fill R * rows wells, so that the
\* replicate blocks are R columns apart, as the column groups are.
AlignedGeometry ==
    /\ ReplicationFactor >= 1
    /\ TotalSourceCount = ReplicationFactor * DestinationRows

\* The column groups that hold a well Distribute has dispensed into.
PopulatedGroups ==
    {c \in 0..(ReplicationFactor - 1) :
        \E w \in Dispensed : (w \div DestinationRows) \in ColumnGroup(c)}

PopulatedCount == Cardinality(PopulatedGroups)

ResuspendedCount == Cardinality(Calls("Resuspend", "distribute"))

(* C14 as stated: the number of column groups Resuspend operates on is     *)
(* min(P + 1, R), P the number of column groups that hold at least one     *)
(* well populated by Distribute.  Stated for the protocol's labware and    *)
(* replication factor.                                                     *)
C14_Original ==
    ( /\ ResuspendComplete
      /\ geom.src_wells = SAMPLE_PLATE_WELLS
      /\ geom.num_reps = NUM_REPS ) =>
        ResuspendedCount
            = (IF PopulatedCount + 1 <= ReplicationFactor
               THEN PopulatedCount + 1 ELSE ReplicationFactor)

(* C14, amended: the number of column groups Resuspend operates on is      *)
(* min(activeSourceCount // rows + 1, R), never more than R.  Where the    *)
(* replicate blocks are R columns apart (total source count = R * rows, as *)
(* in the protocol) this is exactly P, the number of populated groups,     *)
(* when activeSourceCount is not a multiple of rows, and min(P + 1, R)     *)
(* when it is: the extra group is added only at exact multiples.           *)
C14_ResuspendGroups ==
    ResuspendComplete =>
        /\ ResuspendedCount = SelectedOffsets
        /\ ResuspendedCount <= ReplicationFactor
        /\ AlignedGeometry =>
              ResuspendedCount
                  = (IF ActiveSourceCount % DestinationRows # 0
                     THEN PopulatedCount
                     ELSE IF PopulatedCount + 1 <= ReplicationFactor
                          THEN PopulatedCount + 1 ELSE ReplicationFactor)

\* Ten active sources on the protocol's labware: two populated groups, two
\* resuspended.
C14_Witness ==
    /\ ResuspendComplete
    /\ geom = Geometry(24, 9, 8, 12, 3)
    /\ PopulatedCount = 2
    /\ ResuspendedCount = 2

-----------------------------------------------------------------------------
IsTransfer(e) == e.op \in {"distribute", "consolidate"}

(* C15: in every dispense/aspirate operation of the run the volume is      *)
(* greater than 0 and the source positions are disjoint from the           *)
(* destination positions; the destination column of a Pool consolidation   *)
(* is never one of the columns it consolidates from.                       *)
C15_DisjointTransfers ==
    \A i \in DOMAIN log :
        /\ (IsTransfer(log[i]) \/ log[i].op = "mix") => log[i].vol > 0
        /\ IsTransfer(log[i]) =>
              /\ log[i].plate \in {"source", "reagent", "destination"}
              /\ log[i].plate = "destination" =>
                    SeqToSet(log[i].src) \cap SeqToSet(log[i].dst) = {}
        /\ log[i].op = "consolidate" =>
              /\ log[i].plate = "destination"
              /\ Len(log[i].dst) = 1
              /\ \A k \in 1..Len(log[i].src) : log[i].src[k] < log[i].dst[1]

\* Pool has consolidated a group of several columns into a result column.
C15_Witness ==
    \E i \in Calls("Pool", "consolidate") :
        /\ log[i].ok
        /\ Len(log[i].src) >= 2
        /\ log[i].idx >= 1

-----------------------------------------------------------------------------
DestinationColumns == geom.dest_cols

ProtocolLabware ==
    /\ geom.src_wells = SAMPLE_PLATE_WELLS
    /\ geom.dest_rows = DEST_PLATE_ROWS
    /\ geom.dest_cols = DEST_PLATE_COLS

\* The destination columns of the calls in the log.
AddressedColumns ==
    UNION { SeqToSet(log[i].dst) \cup
              (IF log[i].op = "consolidate" THEN SeqToSet(log[i].src) ELSE {}) :
            i \in {j \in DOMAIN log : log[j].phase \in {"Resuspend", "Mix", "Pool"}} }

-----------------------------------------------------------------------------
\* The steps the program takes by itself: every statement of run() outside
\* the two protocol.resume() acknowledgements of the operator.
ProgramStep ==
    \/ Setup
    \/ Layout
    \/ Plate
    \/ PauseDrier
    \/ ResuspendPickUp
    \/ ResuspendDistribute
    \/ ResuspendBlowOut
    \/ ResuspendDropTip
    \/ ResetTipracksResuspend
    \/ MixPickUp
    \/ MixWell
    \/ MixReturnTip
    \/ ResetTipracksMix
    \/ PauseCentrifuge
    \/ PoolSetFlowRate
    \/ PoolConsolidate
    \/ PoolBlowOut
    \/ PoolRestoreFlowRate

\* run() is sequential code: a statement that can execute does execute, and
\* the operator acknowledges each checkpoint.
LiveSpec ==
    /\ Init
    /\ [][Next]_vars
    /\ WF_vars(ProgramStep)
    /\ WF_vars(ResumeDrier)
    /\ WF_vars(ResumeCentrifuge)

Checkpoints == {"wait1", "wait2"}

Ended == pc \in {"done", "failed"}

HardwareFailed == log # <<>> /\ ~log[Len(log)].ok

(* C17: if every operator checkpoint is eventually acknowledged and no     *)
(* hardware action fails, the run eventually completes the Pool phase and  *)
(* terminates after a finite number of operations; the only states in      *)
(* which the run waits are the two operator checkpoints.  Every run ends;  *)
(* a run that ends "done" has completed Pool; a run of the protocol's      *)
(* geometry ends "failed" only at a failed hardware call; a run that has   *)
(* not ended can take a step of its own exactly when it is not at a        *)
(* checkpoint.                                                             *)
C17_Terminates ==
    /\ <>Ended
    /\ [](pc = "done" => PoolComplete)
    /\ []((pc = "failed" /\ geom = ProtocolGeometry) => HardwareFailed)
    /\ [](~Ended => (pc \in Checkpoints <=> ~ENABLED ProgramStep))
    /\ []((pc = "wait1" => ENABLED ResumeDrier)
          /\ (pc = "wait2" => ENABLED ResumeCentrifuge))

\* The protocol's run has ended after both acknowledgements, with no failed
\* call.
C17_Witness ==
    /\ geom = ProtocolGeometry
    /\ pc = "done"
    /\ PoolComplete
    /\ Cardinality(Calls("Pause1", "resume")) = 1
    /\ Cardinality(Calls("Pause2", "resume")) = 1
    /\ \A i \in DOMAIN log : log[i].ok

-----------------------------------------------------------------------------
WellColumn(w) == w \div DestinationRows

\* The destination columns handled by each later phase, from its calls.
ResuspendedColumns ==
    UNION {SeqToSet(log[i].dst) : i \in Calls("Resuspend", "distribute")}

MixedColumns == UNION {SeqToSet(log[i].dst) : i \in Calls("Mix", "mix")}

ConsolidatedColumns ==
    UNION {SeqToSet(log[i].src) : i \in Calls("Pool", "consolidate")}

SelectedColumns == UNION {ColumnGroup(c) : c \in 0..(SelectedOffsets - 1)}

(* C18: for every activeSourceCount in 1..totalSourceCount, every          *)
(* destination well that Distribute dispenses into lies in a column of a   *)
(* column group selected by Resuspend, Mix and Pool, so that by the end of *)
(* the run every replicate well has been resuspended, mixed and            *)
(* consolidated into a result column.  Stated for the geometries in which  *)
(* the replicate blocks are R columns apart (totalSourceCount = R x rows), *)
(* the protocol's 24 = 3 x 8 among them.                                   *)
C18_AllReplicatesProcessed ==
    AlignedGeometry =>
        /\ LayoutComplete =>
              \A w \in Dispensed : WellColumn(w) \in SelectedColumns
        /\ ResuspendComplete =>
              \A w \in Dispensed : WellColumn(w) \in ResuspendedColumns
        /\ MixComplete =>
              \A w \in Dispensed : WellColumn(w) \in MixedColumns
        /\ PoolComplete =>
              \A w \in Dispensed : WellColumn(w) \in ConsolidatedColumns

\* Ten active sources on the protocol's labware: wells of two columns per
\* replicate block, all of them consolidated by the end of the run.
C18_Witness ==
    /\ geom = Geometry(24, 9, 8, 12, 3)
    /\ PoolComplete
    /\ Cardinality(Dispensed) = 30
    /\ {WellColumn(w) : w \in Dispensed} = {0, 1, 3, 4, 6, 7}
    /\ ConsolidatedColumns = {0, 1, 3, 4, 6, 7}

-----------------------------------------------------------------------------
BlowOuts == {i \in DOMAIN log : log[i].op = "blow_out"}

(* C19: every blow-out action the run issues (after each Resuspend         *)
(* dispense and after each Pool consolidation) happens while the pipette   *)
(* holds a tip.  Stated for the protocol's geometry: whenever the next     *)
(* statement is a blow_out, the pipette that executes it holds a tip.      *)
C19_BlowOutHoldsTip ==
    geom = ProtocolGeometry =>
        /\ pc = "resuspend_blow" => hasTip.multi
        /\ pc = "pool_blow" => hasTip.multi

====
